---- MODULE Spec2Model ----
(***************************************************************************)
(* A model of the buddy allocator RawBuddies<T> of src/src/lib.rs.         *)
(*                                                                         *)
(* The state is the bit region the allocator borrows (a flat array of     *)
(* 2^num bits, cut into per-level segments by buddymap_ref/buddymap_mut),  *)
(* together with what a caller observes of the calls it makes: the         *)
(* result of the last call, the bit region before that call, the events    *)
(* (element destructions, bit writes) of that call in program order, the   *)
(* set of blocks handed out and not yet given back, and whether the        *)
(* caller has kept to the contract of free.                                *)
(*                                                                         *)
(* A failed assert! or an out-of-range index is a panic: the call stops    *)
(* where it is, whatever it wrote stays written, and no call follows.      *)
(***************************************************************************)
EXTENDS Integers, Sequences, FiniteSets

\* The number of buddies the allocator is constructed with (field num).
Num == 2

VARIABLES bits, prev, last, log, live, ok, run, calls

vars == <<bits, prev, last, log, live, ok, run, calls>>

RECURSIVE Pow2(_)
\* 1usize << k
Pow2(k) == IF k = 0 THEN 1 ELSE 2 * Pow2(k - 1)

\* The bit indices of the region: core::slice::from_raw_parts(bits, 1 << num),
\* of which the segments address the first 2^num bits.
BitIdx == 0 .. (Pow2(Num) - 1)

\* First bit index of the segment of buddy n: (1 << num) - (1 << (num - n)).
SegLo(n) == Pow2(Num) - Pow2(Num - n)

\* One past the last bit index of the segment: (1 << num) - (1 << (num-n-1)).
SegHi(n) == Pow2(Num) - Pow2(Num - n - 1)

\* Length of the segment of buddy n.
SegLen(n) == SegHi(n) - SegLo(n)

\* The bit slice of buddy n, read: position j of the slice is bit SegLo(n)+j.
buddymap_ref(bs, n) == [j \in 0 .. (SegLen(n) - 1) |-> bs[SegLo(n) + j]]

\* BitSlice::any: some bit of the slice is set.
any(map) == \E j \in DOMAIN map : map[j]

\* iter().position(|s| s): the first position whose bit is set, -1 for None.
position(map) ==
    IF \E j \in DOMAIN map : map[j]
    THEN CHOOSE j \in DOMAIN map : map[j] /\ \A k \in DOMAIN map : map[k] => j <= k
    ELSE -1

\* The bit slice of buddy n, written: map.set(j, v) / map[..].set_all(v) on
\* positions lo .. hi-1 of the slice.
buddymap_mut(bs, n, lo, hi, v) ==
    [k \in DOMAIN bs |-> IF SegLo(n) + lo <= k /\ k < SegLo(n) + hi THEN v ELSE bs[k]]

\* j ^ 1
Xor1(j) == IF j % 2 = 0 THEN j + 1 ELSE j - 1

\* The outcome of a step of set_network: the bit region, the panic (if any)
\* and the events so far.
Net(bs, e, lg) == [bits |-> bs, err |-> e, log |-> lg]

RECURSIVE LowerNet(_, _, _, _, _, _)
\* for b in 0..n { buddymap_mut(b)[i << (n-b) .. (i+1) << (n-b)].set_all(v) }
LowerNet(bs, lg, n, i, v, b) ==
    IF b >= n THEN Net(bs, "none", lg)
    ELSE LET lo == i * Pow2(n - b)
             hi == (i + 1) * Pow2(n - b)
         IN  IF hi > SegLen(b)
             THEN Net(bs, "RangeOutOfBounds", lg)
             ELSE LowerNet(buddymap_mut(bs, b, lo, hi, v),
                           Append(lg, <<"fill", b, lo, hi, v>>), n, i, v, b + 1)

RECURSIVE UpperSet(_, _, _, _, _)
\* v == true: for b in n..num { if map[i >> (b-n)] { break } map.set(.., true) }
UpperSet(bs, lg, n, i, b) ==
    IF b >= Num THEN Net(bs, "none", lg)
    ELSE LET j == i \div Pow2(b - n)
         IN  IF j >= SegLen(b)
             THEN Net(bs, "IndexOutOfBounds", Append(lg, <<"read", b, j>>))
             ELSE IF bs[SegLo(b) + j]
                  THEN Net(bs, "none", Append(lg, <<"read", b, j>>))
                  ELSE UpperSet(buddymap_mut(bs, b, j, j + 1, TRUE),
                                lg \o << <<"read", b, j>>, <<"set", b, j, TRUE>> >>,
                                n, i, b + 1)

\* The sibling read of the upward walk of a free with its test inverted:
\* the walk goes on past a set sibling and stops at a clear one.
UpperClearSibling_Inverted(bs, b, j) ==
    IF Xor1(j) >= SegLen(b) THEN "oob"
    ELSE IF bs[SegLo(b) + Xor1(j)] THEN "up" ELSE "stop"

\* if map[(i >> (b-n)) ^ 1] { break }: "oob" when the index is past the
\* slice (the indexing panics), "stop" on a set sibling, "up" otherwise.
UpperClearSibling(bs, b, j) ==
    IF Xor1(j) >= SegLen(b) THEN "oob"
    ELSE IF bs[SegLo(b) + Xor1(j)] THEN "stop" ELSE "up"

RECURSIVE UpperClear(_, _, _, _, _)
\* v == false: for b in n..num { map.set(.., false); if map[.. ^ 1] { break } }
UpperClear(bs, lg, n, i, b) ==
    IF b >= Num THEN Net(bs, "none", lg)
    ELSE LET j == i \div Pow2(b - n)
         IN  IF j >= SegLen(b)
             THEN Net(bs, "IndexOutOfBounds", Append(lg, <<"set", b, j, FALSE>>))
             ELSE LET bs1 == buddymap_mut(bs, b, j, j + 1, FALSE)
                      lg1 == lg \o << <<"set", b, j, FALSE>>, <<"read", b, Xor1(j)>> >>
                      s   == UpperClearSibling(bs1, b, j)
                  IN  CASE s = "oob"  -> Net(bs1, "IndexOutOfBounds", lg1)
                        [] s = "stop" -> Net(bs1, "none", lg1)
                        [] OTHER      -> UpperClear(bs1, lg1, n, i, b + 1)

\* The second assertion of set_network, assert!(i < (1 << n)).
NetworkIndexAssert(n, i) == i < Pow2(n)

\* set_network(n, i, v)
set_network(bs, lg, n, i, v) ==
    IF ~(n < Num) THEN Net(bs, "NetworkSizeAssert", lg)
    ELSE IF ~NetworkIndexAssert(n, i) THEN Net(bs, "NetworkIndexAssert", lg)
    ELSE LET low == LowerNet(bs, lg, n, i, v, 0)
         IN  IF low.err # "none" THEN low
             ELSE IF v THEN UpperSet(low.bits, low.log, n, i, n)
                       ELSE UpperClear(low.bits, low.log, n, i, n)

\* The result of a call: what it returned or how it panicked, the bit
\* region it leaves and the events it performed.
Res(bs, e, r, p, lg) == [bits |-> bs, err |-> e, ret |-> r, pos |-> p, log |-> lg]

\* can_allocate(n), as a variant that looks for a clear bit would answer.
can_allocate_Clear(bs, n) ==
    IF ~(n < Num) THEN Res(bs, "SizeOutOfRange", "-", -1, <<>>)
    ELSE Res(bs, "none",
             IF \E j \in DOMAIN buddymap_ref(bs, n) : ~buddymap_ref(bs, n)[j]
             THEN "true" ELSE "false", -1, <<>>)

\* can_allocate(n)
can_allocate(bs, n) ==
    IF ~(n < Num) THEN Res(bs, "SizeOutOfRange", "-", -1, <<>>)
    ELSE Res(bs, "none", IF any(buddymap_ref(bs, n)) THEN "true" ELSE "false", -1, <<>>)

\* allocate(n), as a variant that passes false to set_network would run.
allocate_ClearNetwork(bs, n) ==
    IF ~(n < Num) THEN Res(bs, "SizeOutOfRange", "-", -1, <<>>)
    ELSE LET pos == position(buddymap_ref(bs, n))
         IN  IF pos = -1 THEN Res(bs, "none", "None", -1, <<>>)
             ELSE LET net == set_network(bs, <<>>, n, pos, FALSE)
                  IN  IF net.err # "none"
                      THEN Res(net.bits, net.err, "-", -1, net.log)
                      ELSE Res(net.bits, "none", "Some", pos, net.log)

\* allocate(n)
allocate(bs, n) ==
    IF ~(n < Num) THEN Res(bs, "SizeOutOfRange", "-", -1, <<>>)
    ELSE LET pos == position(buddymap_ref(bs, n))
         IN  IF pos = -1 THEN Res(bs, "none", "None", -1, <<>>)
             ELSE LET net == set_network(bs, <<>>, n, pos, TRUE)
                  IN  IF net.err # "none"
                      THEN Res(net.bits, net.err, "-", -1, net.log)
                      ELSE Res(net.bits, "none", "Some", pos, net.log)

\* free(n, pos), as a variant that destroys the element before it looks at
\* the bit of the block would run.
free_DropFirst(bs, n, pos) ==
    IF ~(n < Num) THEN Res(bs, "SizeOutOfRange", "-", -1, <<>>)
    ELSE IF ~(pos < Pow2(Num - n - 1)) THEN Res(bs, "IndexOutOfRange", "-", -1, <<>>)
    ELSE IF ~buddymap_ref(bs, n)[pos]
         THEN Res(bs, "DoubleFree", "-", -1, << <<"drop", pos * Pow2(n)>> >>)
    ELSE LET net == set_network(bs, << <<"drop", pos * Pow2(n)>> >>, n, pos, FALSE)
         IN  Res(net.bits, net.err, "-", -1, net.log)

\* free(n, pos), as a variant whose index assertion is one level too wide
\* would run: a position past the segment reaches the bit read, which panics.
free_WideIndex(bs, n, pos) ==
    IF ~(n < Num) THEN Res(bs, "SizeOutOfRange", "-", -1, <<>>)
    ELSE IF ~(pos < Pow2(Num - n)) THEN Res(bs, "IndexOutOfRange", "-", -1, <<>>)
    ELSE IF pos >= SegLen(n) THEN Res(bs, "IndexOutOfBounds", "-", -1, <<>>)
    ELSE IF ~buddymap_ref(bs, n)[pos] THEN Res(bs, "DoubleFree", "-", -1, <<>>)
    ELSE LET net == set_network(bs, << <<"drop", pos * Pow2(n)>> >>, n, pos, FALSE)
         IN  Res(net.bits, net.err, "-", -1, net.log)

\* free(n, pos), as a variant that frees the network first and destroys the
\* element afterwards would run.
free_DropAfter(bs, n, pos) ==
    IF ~(n < Num) THEN Res(bs, "SizeOutOfRange", "-", -1, <<>>)
    ELSE IF ~(pos < Pow2(Num - n - 1)) THEN Res(bs, "IndexOutOfRange", "-", -1, <<>>)
    ELSE IF ~buddymap_ref(bs, n)[pos] THEN Res(bs, "DoubleFree", "-", -1, <<>>)
    ELSE LET net == set_network(bs, <<>>, n, pos, FALSE)
         IN  IF net.err # "none" THEN Res(net.bits, net.err, "-", -1, net.log)
             ELSE Res(net.bits, "none", "-", -1, Append(net.log, <<"drop", pos * Pow2(n)>>))

\* free(n, pos)
free(bs, n, pos) ==
    IF ~(n < Num) THEN Res(bs, "SizeOutOfRange", "-", -1, <<>>)
    ELSE IF ~(pos < Pow2(Num - n - 1)) THEN Res(bs, "IndexOutOfRange", "-", -1, <<>>)
    ELSE IF ~buddymap_ref(bs, n)[pos] THEN Res(bs, "DoubleFree", "-", -1, <<>>)
    ELSE LET net == set_network(bs, << <<"drop", pos * Pow2(n)>> >>, n, pos, FALSE)
         IN  Res(net.bits, net.err, "-", -1, net.log)

\* The sizes and positions a caller may pass: the valid ones and one past.
Sizes == 0 .. Num
Positions == 0 .. Pow2(Num - 1)

\* The last call as the caller sees it.
Call(op, n, i, r) == [op |-> op, n |-> n, i |-> i, err |-> r.err, ret |-> r.ret, pos |-> r.pos]

\* The number of calls that are followed.
MaxCalls == 8

\* The run of calls so far: n is the size when every call so far was
\* allocate(n) for that one size (-1 before the first call, -2 once the calls
\* are mixed), somes the number of those calls that returned Some before the
\* first None, and none whether one of them returned None.
NoRun == [n |-> -2, somes |-> 0, none |-> FALSE]

RunAfterAllocate(n, r) ==
    IF (run.n = -1 \/ run.n = n) /\ r.err = "none"
    THEN [n |-> n,
          somes |-> IF r.ret = "Some" /\ ~run.none THEN run.somes + 1 ELSE run.somes,
          none |-> run.none \/ r.ret = "None"]
    ELSE NoRun

\* What a caller holds right after RawBuddies::new.
Fresh ==
    /\ prev = bits
    /\ last = [op |-> "new", n |-> 0, i |-> 0, err |-> "none", ret |-> "-", pos |-> -1]
    /\ log = <<>>
    /\ live = {}
    /\ ok = TRUE
    /\ run = [n |-> -1, somes |-> 0, none |-> FALSE]
    /\ calls = 0

\* The state after RawBuddies::new over a bit region that holds only 0s, as
\* the conditions of new require.
Init ==
    /\ bits = [k \in BitIdx |-> FALSE]
    /\ Fresh

\* The state after RawBuddies::new over any bit region: new stores the
\* pointer and neither reads nor clears the bits.
InitAny ==
    /\ bits \in [BitIdx -> BOOLEAN]
    /\ Fresh

\* A call is possible as long as no call has panicked.
Running == last.err = "none" /\ calls < MaxCalls

CanAllocate ==
    /\ Running
    /\ \E n \in Sizes :
        LET r == can_allocate(bits, n)
        IN  /\ bits' = r.bits
            /\ prev' = bits
            /\ last' = Call("can_allocate", n, 0, r)
            /\ log' = r.log
            /\ ok' = (ok /\ n < Num)
            /\ run' = NoRun
            /\ calls' = calls + 1
            /\ UNCHANGED live

Allocate ==
    /\ Running
    /\ \E n \in Sizes :
        LET r == allocate(bits, n)
        IN  /\ bits' = r.bits
            /\ prev' = bits
            /\ last' = Call("allocate", n, 0, r)
            /\ log' = r.log
            /\ live' = IF r.ret = "Some" THEN live \cup {<<n, r.pos>>} ELSE live
            /\ ok' = (ok /\ n < Num)
            /\ run' = RunAfterAllocate(n, r)
            /\ calls' = calls + 1

Free ==
    /\ Running
    /\ \E n \in Sizes, i \in Positions :
        LET r == free(bits, n, i)
        IN  /\ bits' = r.bits
            /\ prev' = bits
            /\ last' = Call("free", n, i, r)
            /\ log' = r.log
            /\ live' = live \ {<<n, i>>}
            /\ ok' = (ok /\ <<n, i>> \in live)
            /\ run' = NoRun
            /\ calls' = calls + 1

Next == CanAllocate \/ Allocate \/ Free

Spec == Init /\ [][Next]_vars

SpecAny == InitAny /\ [][Next]_vars

(***************************************************************************)
(* The claims.  prev is the bit region the last call started from, so a    *)
(* statement about one call relates prev, last and bits.                   *)
(***************************************************************************)

\* Under Spec: started on the all-zero bit region, no call ever sets a bit or
\* hands out a block (allocate looks for a set bit and finds none, free finds
\* the bit of every block clear), so the statements about live allocations
\* have no reachable case.
ZeroRegionStaysZero == (\A k \in BitIdx : ~bits[k]) /\ live = {}

\* The first position of a bit slice whose bit is clear, -1 when all are set.
FirstFalse(map) ==
    IF \E j \in DOMAIN map : ~map[j]
    THEN CHOOSE j \in DOMAIN map : ~map[j] /\ \A k \in DOMAIN map : ~map[k] => j <= k
    ELSE -1

\* C2: when allocate(n) returns Some((handle, i)), i is the smallest position
\* of the level-n segment whose bit was false immediately before the call.
C2_FirstFalseBit ==
    (last.op = "allocate" /\ last.ret = "Some")
        => last.pos = FirstFalse(buddymap_ref(prev, last.n))

\* C3: can_allocate(n) with n < N returns true if and only if the level-n
\* segment of the bit region contains at least one false bit.
C3_CanAllocateIffFalseBit ==
    (last.op = "can_allocate" /\ last.err = "none")
        => (last.ret = "true" <=> \E j \in 0 .. (SegLen(last.n) - 1) : ~prev[SegLo(last.n) + j])

\* C4: for every n < N and every bit region, can_allocate(n) returns false
\* if and only if allocate(n), run on the bit region can_allocate(n) saw,
\* returns None.
C4_Exhaustion ==
    (last.op = "allocate" /\ last.n < Num)
        => (can_allocate(prev, last.n).ret = "false" <=> last.ret = "None")

\* C4, the exhausted case: a bit region other than the all-zero one on which
\* can_allocate(n) answers false and the allocate(n) run on it returned None.
C4_Witness ==
    /\ last.op = "allocate" /\ last.n < Num /\ last.ret = "None"
    /\ can_allocate(prev, last.n).ret = "false"
    /\ \E k \in BitIdx : prev[k]

\* C5: as long as the caller passes sizes n < N and frees only blocks that an
\* allocate returned and that are not yet freed, no call panics.
C5_ValidCallsNeverAbort ==
    ok => last.err = "none"

\* C8: after a run of allocate(n) calls for one size n that started on the
\* all-zero bit region and has returned None, the number of calls that
\* returned Some is 2^N for n = 0 and 2^(N-n-1) for the other sizes.
C8_Capacity ==
    (run.n >= 0 /\ run.none)
        => run.somes = (IF run.n = 0 THEN Pow2(Num) ELSE Pow2(Num - run.n - 1))

\* C9: in a run of allocate(n) calls for one size n that started on the
\* all-zero bit region, call number k (k = 0, 1, 2, ...) returns Some with
\* position k as long as k is below the number of size-n blocks.
C9_SelectionOrder ==
    (run.n >= 0 /\ last.op = "allocate" /\ calls - 1 < SegLen(run.n))
        => (last.ret = "Some" /\ last.pos = calls - 1)

\* C10: free(n, i) with n < N and i < 2^(N-n-1), called while Bit(n, i) is
\* false, panics with DoubleFree, and it has then changed no bit and
\* destroyed no element.
C10_DoubleFree ==
    (/\ last.op = "free" /\ last.n < Num /\ last.i < Pow2(Num - last.n - 1)
     /\ ~prev[SegLo(last.n) + last.i])
        => (last.err = "DoubleFree" /\ bits = prev /\ log = <<>>)

\* C10, a double free on a bit region that holds set bits elsewhere.
C10_Witness ==
    /\ last.op = "free" /\ last.n < Num /\ last.i < Pow2(Num - last.n - 1)
    /\ ~prev[SegLo(last.n) + last.i]
    /\ last.err = "DoubleFree"
    /\ \E k \in BitIdx : prev[k]

\* Bit(n, i) of a bit region.
Bit(bs, n, i) == bs[SegLo(n) + i]

\* The last call was a free whose three assertions held: the size and the
\* position were in range and the bit of the block was set.
FreePassedChecks ==
    /\ last.op = "free" /\ last.n < Num /\ last.i < Pow2(Num - last.n - 1)
    /\ Bit(prev, last.n, last.i)

\* C11: can_allocate(n), allocate(n) and free(n, i) panic with SizeOutOfRange
\* whenever n >= N, free(n, i) with n < N panics with IndexOutOfRange
\* whenever i >= 2^(N-n-1), and in each case no bit has been written, no
\* element destroyed and no bit of a segment looked at.
C11_RangeChecks ==
    /\ (last.op \in {"can_allocate", "allocate", "free"} /\ last.n >= Num)
          => (last.err = "SizeOutOfRange" /\ bits = prev /\ log = <<>>)
    /\ (last.op = "free" /\ last.n < Num /\ last.i >= Pow2(Num - last.n - 1))
          => (last.err = "IndexOutOfRange" /\ bits = prev /\ log = <<>>)

\* C11, a free with a position past the segment on a bit region with set bits.
C11_Witness ==
    /\ last.op = "free" /\ last.n < Num /\ last.i >= Pow2(Num - last.n - 1)
    /\ last.err = "IndexOutOfRange"
    /\ \E k \in BitIdx : prev[k]

\* C12: allocate(n) with n < N returns None exactly when no bit of the
\* level-n segment is false, and then it has not panicked and every bit is
\* as it was.
C12_NoneIffNoFalseBit ==
    (last.op = "allocate" /\ last.n < Num)
        => /\ last.ret = "None" <=> \A j \in 0 .. (SegLen(last.n) - 1) : Bit(prev, last.n, j)
           /\ last.ret = "None" => (last.err = "none" /\ bits = prev)

\* C15: every bit that is true before allocate(n), n < N, is true after it,
\* whatever the call returns.
C15_MonotoneUnderAllocate ==
    (last.op = "allocate" /\ last.n < Num)
        => \A k \in BitIdx : prev[k] => bits[k]

\* C15, an allocate that returned Some and set bits on a bit region that
\* already held set bits.
C15_Witness ==
    /\ last.op = "allocate" /\ last.ret = "Some"
    /\ \E k \in BitIdx : prev[k]
    /\ \E k \in BitIdx : ~prev[k] /\ bits[k]

\* The level-n sibling of the block of the last call exists and its bit was
\* set when the call started.
SiblingSet ==
    /\ Xor1(last.i) < SegLen(last.n)
    /\ Bit(prev, last.n, Xor1(last.i))

\* C16: a free(n, i) whose assertions held, called while Bit(n, i XOR 1) is
\* true, leaves every bit of every level b > n as it was; this holds of the
\* calls that complete and of any that would not.
C16_SiblingLock ==
    (FreePassedChecks /\ SiblingSet)
        => \A b \in (last.n + 1) .. (Num - 1) :
              \A j \in 0 .. (SegLen(b) - 1) : Bit(bits, b, j) = Bit(prev, b, j)

\* C16, a free that completed next to a set sibling, below a set parent bit.
C16_Witness ==
    /\ FreePassedChecks /\ SiblingSet /\ last.err = "none"
    /\ last.n + 1 < Num
    /\ Bit(prev, last.n + 1, last.i \div 2)
    /\ ~Bit(bits, last.n, last.i)

Drops == SelectSeq(log, LAMBDA e : e[1] = "drop")

\* C18: a free(n, i) whose three assertions held destroys exactly one
\* element, the one at index i * 2^n, and does so before it writes any bit;
\* a free that panics on one of the assertions destroys nothing.
C18_DestructionOnFree ==
    last.op = "free"
        => IF FreePassedChecks
           THEN /\ Len(log) >= 1
                /\ log[1] = <<"drop", last.i * Pow2(last.n)>>
                /\ Len(Drops) = 1
           ELSE /\ last.err \in {"SizeOutOfRange", "IndexOutOfRange", "DoubleFree"}
                /\ Drops = <<>>

\* C18, a free that destroyed the head element and then cleared bits.
C18_Witness ==
    /\ FreePassedChecks /\ last.err = "none"
    /\ log[1] = <<"drop", last.i * Pow2(last.n)>>
    /\ \E k \in 2 .. Len(log) : log[k][1] = "set"
    /\ bits # prev

\* C19: whenever allocate (with the position it found in the level-n
\* segment) or free (with arguments that passed its assertions) calls
\* set_network(n, i, v), the assertions n < N and i < 2^n hold.
C19_NetworkAssertions ==
    /\ (last.op = "allocate" /\ last.n < Num /\ position(buddymap_ref(prev, last.n)) # -1)
          => NetworkIndexAssert(last.n, position(buddymap_ref(prev, last.n)))
    /\ FreePassedChecks => NetworkIndexAssert(last.n, last.i)
    /\ last.err \notin {"NetworkSizeAssert", "NetworkIndexAssert"}

\* C20: every position the upward walks of set_network read or write at a
\* level b, the sibling position of a free included, is below the length
\* 2^(N-b-1) of the segment of that level.
C20_InSegmentAccess ==
    \A k \in 1 .. Len(log) :
        log[k][1] \in {"read", "set"} => log[k][3] < SegLen(log[k][2])

====
